---- MODULE Spec2Model ----
(***************************************************************************)
(* Model of the article pipeline of scripts/app: scrap.py (scrape_text,    *)
(* run_pipeline) and nlp_utils.py (get_nlp, the dictionary detectors,      *)
(* clean_text, build_record).                                              *)
(*                                                                         *)
(* A Python str is a sequence of Unicode code points.  An Optional value   *)
(* is a sequence of length 0 (None) or 1 (the value), so that None and     *)
(* the empty string stay different values.                                 *)
(***************************************************************************)
EXTENDS Integers, Sequences, FiniteSets, TLC

VARIABLES
  \* ---- run_pipeline (scrap.py) ----
  df_urls,          \* the rows read from URLS_CSV: the url cell of each row
  pc,               \* "loop" | "done" | "aborted": position of run_pipeline
                    \* ("calls": run_pipeline is not running)
  row,              \* number of rows of df_urls the for loop has consumed
  results,          \* the list of records collected so far
  scraped,          \* the value scrape_text returned for each row it was called on
  failed_count,
  too_short_count,
  raised,           \* the step whose exception left run_pipeline, or "none"
  df_final,         \* Optional: the rows written to SCRAPED_DATASET
  summary,          \* Optional: the counts of the summary logged at the end
  \* ---- the module state of nlp_utils.py ----
  NLP,              \* _NLP: None, or the loaded model
  loads,            \* number of spacy.load calls made so far
  model_installed,  \* environment: whether spacy.load(SPACY_MODEL) succeeds
  \* ---- one caller of the detectors (pure functions of a text) ----
  text,             \* the argument of the calls
  animals,          \* Optional: what detect_animals(text) returned
  diseases,         \* Optional: what detect_diseases_nlp(text) returned
  fetch,            \* Optional: what the two fetches of the last scrape_text answered
  scrape_ret,       \* Optional: what that scrape_text returned
  call_raised,      \* the call whose exception left the last detector, or "none"
  consulted,        \* whether that detect_diseases_nlp reached get_nlp()
  source_nlp,       \* Optional: what detect_publication_source(text) returned
  scorer,           \* Optional: what TextBlob answered to the last compute_sentiment
                    \* (None inside: it raised)
  sentiment,        \* Optional: what that compute_sentiment(text) returned
  nlp_ret,          \* Optional: what the last direct get_nlp() returned, and
                    \* whether that call loaded the model
  locations,        \* Optional: what detect_locations(text) returned
  \* ---- workers that call get_nlp() at the same time ----
  wpc,              \* the position of each worker in get_nlp
  wlocal,           \* Optional: the value spacy.load returned to each worker
  wret              \* Optional: the value get_nlp returned to each worker

vars == <<df_urls, pc, row, results, scraped, failed_count, too_short_count,
          raised, df_final, summary, NLP, loads, model_installed,
          text, animals, diseases, fetch, scrape_ret, call_raised,
          consulted, source_nlp, scorer, sentiment, nlp_ret, locations,
          wpc, wlocal, wret>>

pipeline_vars == <<df_urls, pc, row, results, scraped, failed_count,
                   too_short_count, raised, df_final, summary>>

caller_vars == <<text, animals, diseases, fetch, scrape_ret, call_raised,
                 consulted, source_nlp, scorer, sentiment, nlp_ret, locations>>

worker_vars == <<wpc, wlocal, wret>>

----------------------------------------------------------------------------
(* Optional values *)

None == <<>>

Some(x) == <<x>>

IsNone(o) == Len(o) = 0

Get(o) == o[1]

----------------------------------------------------------------------------
(* Python str primitives used by the code *)

\* str.isspace() / the class \s of re on a str pattern
IsSpace(c) ==
  c \in {9, 10, 11, 12, 13, 28, 29, 30, 31, 32, 133, 160, 5760, 8232, 8233,
         8239, 8287, 12288} \cup (8192..8202)

\* str.lower() on one code point: ASCII and Latin-1 capitals fold, Arabic
\* letters (U+0600-U+06FF) have no case
LowerChar(c) ==
  IF c \in 65..90 \/ c \in 192..214 \/ c \in 216..222 THEN c + 32 ELSE c

lower(s) == [i \in 1..Len(s) |-> LowerChar(s[i])]

\* Python's  v in s  on two str
In(v, s) ==
  \E i \in 0..(Len(s) - Len(v)) : \A k \in 1..Len(v) : s[i + k] = v[k]

RECURSIVE Ordered(_, _, _)
\* the members of the set K of positions that lie in lo..hi, in increasing order
Ordered(K, lo, hi) ==
  IF lo > hi THEN <<>>
  ELSE IF lo = hi THEN (IF lo \in K THEN <<lo>> ELSE <<>>)
  ELSE LET mid == (lo + hi) \div 2
       IN  Ordered(K, lo, mid) \o Ordered(K, mid + 1, hi)

\* str.split(): the maximal runs of non-whitespace, in order
split(s) ==
  LET n      == Len(s)
      starts == Ordered({i \in 1..n : ~IsSpace(s[i]) /\ (i = 1 \/ IsSpace(s[i - 1]))}, 1, n)
      ends   == Ordered({i \in 1..n : ~IsSpace(s[i]) /\ (i = n \/ IsSpace(s[i + 1]))}, 1, n)
  IN  [k \in 1..Len(starts) |-> SubSeq(s, starts[k], ends[k])]

RECURSIVE join(_, _)
\* sep.join(parts)
join(sep, parts) ==
  IF Len(parts) = 0 THEN <<>>
  ELSE IF Len(parts) = 1 THEN parts[1]
  ELSE LET h == Len(parts) \div 2
       IN  join(sep, SubSeq(parts, 1, h)) \o sep \o join(sep, SubSeq(parts, h + 1, Len(parts)))

\* str.strip()
strip(s) ==
  LET keep == {i \in 1..Len(s) : ~IsSpace(s[i])}
  IN  IF keep = {} THEN <<>>
      ELSE LET lo == CHOOSE i \in keep : \A j \in keep : i <= j
               hi == CHOOSE i \in keep : \A j \in keep : j <= i
           IN  SubSeq(s, lo, hi)

\* re.sub(r"\s+", " ", s): each maximal run of whitespace becomes one space
re_sub_spaces(s) ==
  LET n    == Len(s)
      kept == Ordered({i \in 1..n : ~IsSpace(s[i]) \/ i = 1 \/ ~IsSpace(s[i - 1])}, 1, n)
  IN  [k \in 1..Len(kept) |-> IF IsSpace(s[kept[k]]) THEN 32 ELSE s[kept[k]]]

\* str < str: comparison by code point, a proper prefix first
StrLess(a, b) ==
  \E i \in 1..Len(b) :
    /\ \A k \in 1..(i - 1) : k <= Len(a) /\ a[k] = b[k]
    /\ i - 1 <= Len(a)
    /\ (i > Len(a) \/ a[i] < b[i])

RECURSIVE sorted(_)
\* sorted(a set of str)
sorted(S) ==
  IF S = {} THEN <<>>
  ELSE LET m == CHOOSE x \in S : \A y \in S : x = y \/ StrLess(x, y)
       IN  <<m>> \o sorted(S \ {m})

----------------------------------------------------------------------------
(* nlp_utils.py: the dictionaries *)

DISEASE_VARIANTS ==
  <<
    \* "flu"
    [canon |-> <<102,108,117>>,
     variants |-> <<
       <<102,108,117>>,
       <<105,110,102,108,117,101,110,122,97>>,
       <<103,114,105,112,112,101>>,
       <<1575,1606,1601,1604,1608,1606,1586,1575>>,
       <<1575,1604,1575,1606,1601,1604,1608,1606,1586,1575>>
     >>],
    \* "covid-19"
    [canon |-> <<99,111,118,105,100,45,49,57>>,
     variants |-> <<
       <<99,111,118,105,100>>,
       <<99,111,118,105,100,45,49,57>>,
       <<99,111,114,111,110,97,118,105,114,117,115>>,
       <<115,97,114,115,45,99,111,118,45,50>>,
       <<1603,1608,1585,1608,1606,1575>>,
       <<1601,1610,1585,1608,1587,32,1603,1608,1585,1608,1606,1575>>,
       <<1603,1608,1601,1610,1583>>,
       <<1603,1608,1601,1610,1583,45,49,57>>
     >>],
    \* "malaria"
    [canon |-> <<109,97,108,97,114,105,97>>,
     variants |-> <<
       <<109,97,108,97,114,105,97>>,
       <<112,97,108,117,100,105,115,109,101>>,
       <<1605,1604,1575,1585,1610,1575>>,
       <<1575,1604,1605,1604,1575,1585,1610,1575>>
     >>],
    \* "cholera"
    [canon |-> <<99,104,111,108,101,114,97>>,
     variants |-> <<
       <<99,104,111,108,101,114,97>>,
       <<1603,1608,1604,1610,1585,1575>>,
       <<1575,1604,1603,1608,1604,1610,1585,1575>>
     >>],
    \* "fever"
    [canon |-> <<102,101,118,101,114>>,
     variants |-> <<
       <<102,101,118,101,114>>,
       <<102,105,232,118,114,101>>,
       <<1581,1605,1609>>
     >>],
    \* "rift valley fever"
    [canon |-> <<114,105,102,116,32,118,97,108,108,101,121,32,102,101,118,101,114>>,
     variants |-> <<
       <<114,105,102,116,32,118,97,108,108,101,121,32,102,101,118,101,114>>,
       <<1581,1605,1609,32,1575,1604,1608,1575,1583,1610,32,1575,1604,1605,1578,1589,1583,1593>>
     >>],
    \* "rabies"
    [canon |-> <<114,97,98,105,101,115>>,
     variants |-> <<
       <<114,97,98,105,101,115>>,
       <<114,97,103,101>>,
       <<1583,1575,1569,32,1575,1604,1603,1604,1576>>,
       <<1575,1604,1587,1593,1575,1585>>
     >>],
    \* "cancer"
    [canon |-> <<99,97,110,99,101,114>>,
     variants |-> <<
       <<99,97,110,99,101,114>>,
       <<1587,1585,1591,1575,1606>>
     >>]
  >>

ANIMAL_VARIANTS ==
  <<
    \* "cat"
    [canon |-> <<99,97,116>>,
     variants |-> <<
       <<99,97,116>>,
       <<99,104,97,116>>,
       <<1602,1591>>,
       <<1602,1591,1591>>
     >>],
    \* "dog"
    [canon |-> <<100,111,103>>,
     variants |-> <<
       <<100,111,103>>,
       <<99,104,105,101,110>>,
       <<1603,1604,1576>>,
       <<1603,1604,1575,1576>>
     >>],
    \* "cow"
    [canon |-> <<99,111,119>>,
     variants |-> <<
       <<99,111,119>>,
       <<99,97,116,116,108,101>>,
       <<118,97,99,104,101>>,
       <<1571,1576,1602,1575,1585>>,
       <<1575,1576,1602,1575,1585>>,
       <<1576,1602,1585>>,
       <<1576,1602,1585,1577>>
     >>],
    \* "chicken"
    [canon |-> <<99,104,105,99,107,101,110>>,
     variants |-> <<
       <<99,104,105,99,107,101,110>>,
       <<112,111,117,108,101,116>>,
       <<1583,1580,1575,1580>>
     >>],
    \* "poultry"
    [canon |-> <<112,111,117,108,116,114,121>>,
     variants |-> <<
       <<112,111,117,108,116,114,121>>,
       <<118,111,108,97,105,108,108,101>>,
       <<1583,1608,1575,1580,1606>>
     >>],
    \* "goat"
    [canon |-> <<103,111,97,116>>,
     variants |-> <<
       <<103,111,97,116>>,
       <<99,104,232,118,114,101>>,
       <<1605,1575,1593,1586>>
     >>],
    \* "sheep"
    [canon |-> <<115,104,101,101,112>>,
     variants |-> <<
       <<115,104,101,101,112>>,
       <<109,111,117,116,111,110>>,
       <<1582,1585,1575,1601>>,
       <<1571,1594,1606,1575,1605>>,
       <<1575,1594,1606,1575,1605>>
     >>],
    \* "camel"
    [canon |-> <<99,97,109,101,108>>,
     variants |-> <<
       <<99,97,109,101,108>>,
       <<99,104,97,109,101,97,117>>,
       <<1580,1605,1575,1604>>,
       <<1573,1576,1604>>,
       <<1575,1576,1604>>
     >>],
    \* "pig"
    [canon |-> <<112,105,103>>,
     variants |-> <<
       <<112,105,103>>,
       <<115,119,105,110,101>>,
       <<112,111,114,99>>,
       <<1582,1606,1575,1586,1610,1585>>,
       <<1582,1606,1586,1610,1585>>
     >>],
    \* "horse"
    [canon |-> <<104,111,114,115,101>>,
     variants |-> <<
       <<104,111,114,115,101>>,
       <<99,104,101,118,97,108>>,
       <<1582,1610,1608,1604>>,
       <<1581,1589,1575,1606>>
     >>],
    \* "bird"
    [canon |-> <<98,105,114,100>>,
     variants |-> <<
       <<98,105,114,100>>,
       <<111,105,115,101,97,117>>,
       <<1591,1610,1608,1585>>
     >>]
  >>

DISEASE_LIST ==
  {<<102,108,117>>,
   <<99,111,118,105,100,45,49,57>>,
   <<99,111,114,111,110,97,118,105,114,117,115>>,
   <<100,101,110,103,117,101>>,
   <<97,110,116,104,114,97,120>>,
   <<109,101,97,115,108,101,115>>,
   <<99,104,111,108,101,114,97>>,
   <<101,98,111,108,97>>,
   <<109,97,108,97,114,105,97>>,
   <<116,117,98,101,114,99,117,108,111,115,105,115>>,
   <<99,97,110,99,101,114>>,
   <<102,101,118,101,114>>,
   <<97,118,105,97,110,32,102,108,117>>,
   <<102,111,111,116,32,97,110,100,32,109,111,117,116,104>>,
   <<114,105,102,116,32,118,97,108,108,101,121,32,102,101,118,101,114>>,
   <<114,97,98,105,101,115>>,
   <<98,114,117,99,101,108,108,111,115,105,115>>}

AR_COUNTRY_TERMS ==
  <<
    \* "Tunisia"
    [ar_name |-> <<1578,1608,1606,1587>>, en_name |-> <<84,117,110,105,115,105,97>>],
    \* "Morocco"
    [ar_name |-> <<1575,1604,1605,1594,1585,1576>>, en_name |-> <<77,111,114,111,99,99,111>>],
    \* "Algeria"
    [ar_name |-> <<1575,1604,1580,1586,1575,1574,1585>>, en_name |-> <<65,108,103,101,114,105,97>>],
    \* "Egypt"
    [ar_name |-> <<1605,1589,1585>>, en_name |-> <<69,103,121,112,116>>],
    \* "Libya"
    [ar_name |-> <<1604,1610,1576,1610,1575>>, en_name |-> <<76,105,98,121,97>>],
    \* "Iraq"
    [ar_name |-> <<1575,1604,1593,1585,1575,1602>>, en_name |-> <<73,114,97,113>>],
    \* "Syria"
    [ar_name |-> <<1587,1608,1585,1610,1575>>, en_name |-> <<83,121,114,105,97>>],
    \* "Lebanon"
    [ar_name |-> <<1604,1576,1606,1575,1606>>, en_name |-> <<76,101,98,97,110,111,110>>],
    \* "Jordan"
    [ar_name |-> <<1575,1604,1571,1585,1583,1606>>, en_name |-> <<74,111,114,100,97,110>>],
    \* "Saudi Arabia"
    [ar_name |-> <<1575,1604,1587,1593,1608,1583,1610,1577>>, en_name |-> <<83,97,117,100,105,32,65,114,97,98,105,97>>],
    \* "Yemen"
    [ar_name |-> <<1575,1604,1610,1605,1606>>, en_name |-> <<89,101,109,101,110>>],
    \* "Kuwait"
    [ar_name |-> <<1575,1604,1603,1608,1610,1578>>, en_name |-> <<75,117,119,97,105,116>>],
    \* "Qatar"
    [ar_name |-> <<1602,1591,1585>>, en_name |-> <<81,97,116,97,114>>],
    \* "United Arab Emirates"
    [ar_name |-> <<1575,1604,1573,1605,1575,1585,1575,1578>>, en_name |-> <<85,110,105,116,101,100,32,65,114,97,98,32,69,109,105,114,97,116,101,115>>],
    \* "United Arab Emirates"
    [ar_name |-> <<1575,1604,1575,1605,1575,1585,1575,1578>>, en_name |-> <<85,110,105,116,101,100,32,65,114,97,98,32,69,109,105,114,97,116,101,115>>]
  >>

----------------------------------------------------------------------------
(* nlp_utils.py: pure functions *)

clean_text(s) == strip(re_sub_spaces(s))

\* the canonical terms of a variant dictionary found by the loop
\*   for canon, variants in D.items(): for v in variants:
\*     if v in text_low or v in text: found.add(canon)
DictionaryPass(D, s) ==
  LET text_low == lower(s)
  IN  {D[i].canon : i \in {i \in 1..Len(D) :
         \E j \in 1..Len(D[i].variants) :
            In(D[i].variants[j], text_low) \/ In(D[i].variants[j], s)}}

\* faulty variant of detect_animals: the variants are looked up in the
\* original text only, not in its lower-cased form
detect_animals_case_sensitive(s) ==
  sorted({ANIMAL_VARIANTS[i].canon : i \in {i \in 1..Len(ANIMAL_VARIANTS) :
            \E j \in 1..Len(ANIMAL_VARIANTS[i].variants) :
               In(ANIMAL_VARIANTS[i].variants[j], s)}})

detect_animals(s) == sorted(DictionaryPass(ANIMAL_VARIANTS, s))

\* "Avian flu outbreak reported in chickens and cows near Cairo, Egypt, ministry confirms."
TextExample ==
  <<65,118,105,97,110,32,102,108,117,32,111,117,116,98,114,101,97,107,32,114,101,112,111,114,116,101,100,32,105,110,32,99,104,105,99,107,101,110,115,32,97,110,100,32,99,111,119,115,32,110,101,97,114,32,67,97,105,114,111,44,32,69,103,121,112,116,44,32,109,105,110,105,115,116,114,121,32,99,111,110,102,105,114,109,115,46>>

\* "\u062a\u0645 \u0631\u0635\u062f \u0645\u0627\u0639\u0632 \u0645\u0631\u064a\u0636\u0629"
TextGoatArabic ==
  <<1578,1605,32,1585,1589,1583,32,1605,1575,1593,1586,32,1605,1585,1610,1590,1577>>

\* "CHICKENS AND COWS"
TextUpper ==
  <<67,72,73,67,75,69,78,83,32,65,78,68,32,67,79,87,83>>

\* "Nothing of note today"
TextPlain ==
  <<78,111,116,104,105,110,103,32,111,102,32,110,111,116,101,32,116,111,100,97,121>>

\* "The location was vacated"
TextSubstring ==
  <<84,104,101,32,108,111,99,97,116,105,111,110,32,119,97,115,32,118,97,99,97,116,101,100>>

\* "La CH\xc8VRE et le mouton ont la Fi\xe8vre"
TextFrench ==
  <<76,97,32,67,72,200,86,82,69,32,101,116,32,108,101,32,109,111,117,116,111,110,32,111,110,116,32,108,97,32,70,105,232,118,114,101>>

\* ""
TextEmpty ==
  <<>>

\* "Dengue cases rising"
TextDengue ==
  <<68,101,110,103,117,101,32,99,97,115,101,115,32,114,105,115,105,110,103>>

\* "\u0643\u0648\u0631\u0648\u0646\u0627 \u0641\u064a \u0645\u0635\u0631 \u0628\u064a\u0646 \u0623\u0628\u0642\u0627\u0631"
TextArabicMixed ==
  <<1603,1608,1585,1608,1606,1575,32,1601,1610,32,1605,1589,1585,32,1576,1610,1606,32,1571,1576,1602,1575,1585>>

\* "Rift Valley Fever in Camels"
TextRift ==
  <<82,105,102,116,32,86,97,108,108,101,121,32,70,101,118,101,114,32,105,110,32,67,97,109,101,108,115>>

\* "Posted on Facebook by the Ministry of Health"
TextFacebookMinistry ==
  <<80,111,115,116,101,100,32,111,110,32,70,97,99,101,98,111,111,107,32,98,121,32,116,104,101,32,77,105,110,105,115,116,114,121,32,111,102,32,72,101,97,108,116,104>>

\* "Press TV report on cattle"
TextPressTv ==
  <<80,114,101,115,115,32,84,86,32,114,101,112,111,114,116,32,111,110,32,99,97,116,116,108,101>>

\* "Heard on the RADIO this morning"
TextRadio ==
  <<72,101,97,114,100,32,111,110,32,116,104,101,32,82,65,68,73,79,32,116,104,105,115,32,109,111,114,110,105,110,103>>

\* "Le MINIST\xc8RE confirme"
TextMinistere ==
  <<76,101,32,77,73,78,73,83,84,200,82,69,32,99,111,110,102,105,114,109,101>>

\* Arabic: "the Emirates and the Emirates and Tunisia", the Emirates in
\* both spellings of AR_COUNTRY_TERMS
TextEmirates ==
  <<1575,1604,1573,1605,1575,1585,1575,1578,32,1608,32,1575,1604,1575,1605,1575,1585,1575,1578,32,1608,32,1578,1608,1606,1587>>

detect_language(env) ==
  \* langdetect.detect(text); LangDetectException is caught
  IF IsNone(env.lang) THEN "unknown" ELSE Get(env.lang)

has_arabic(s) == \E i \in 1..Len(s) : s[i] \in 1536..1791

\* faulty variant of get_nlp: a failed load is swallowed and a blank model
\* is kept instead
get_nlp_blank_on_failure(m, installed) ==
  IF IsNone(m.NLP)
    THEN [NLP |-> Some(m.loads + 1), loads |-> m.loads + 1, raised |-> FALSE]
    ELSE [NLP |-> m.NLP, loads |-> m.loads, raised |-> FALSE]

\* faulty variant of get_nlp: the model is loaded at every call
get_nlp_always_loads(m, installed) ==
  IF installed
    THEN [NLP |-> Some(m.loads + 1), loads |-> m.loads + 1, raised |-> FALSE]
    ELSE [NLP |-> None, loads |-> m.loads + 1, raised |-> TRUE]

\* get_nlp() on the module state m = [NLP, loads]; installed tells whether
\* spacy.load(SPACY_MODEL) succeeds; the instance that the k-th spacy.load
\* returns is named k
get_nlp(m, installed) ==
  IF IsNone(m.NLP)
    THEN IF installed
           THEN [NLP |-> Some(m.loads + 1), loads |-> m.loads + 1, raised |-> FALSE]
           ELSE [NLP |-> None, loads |-> m.loads + 1, raised |-> TRUE]
    ELSE [NLP |-> m.NLP, loads |-> m.loads, raised |-> FALSE]

\* A detector that calls the model returns [raised, value, m]: raised names
\* the call whose exception leaves it ("none": it returns value), m is the
\* module state afterwards.  env holds what the libraries answer: installed,
\* nlp_fault (the detector in which nlp(text) raises, or "none"), lemmas (the
\* lemma_ of the tokens), ents (the entities of the doc).
Raise(what, g) ==
  [raised |-> what, value |-> None,
   m |-> [NLP |-> g.NLP, loads |-> g.loads, raised |-> FALSE]]

Return(v, g) ==
  [raised |-> "none", value |-> Some(v),
   m |-> [NLP |-> g.NLP, loads |-> g.loads, raised |-> FALSE]]

\* faulty variant of detect_diseases_nlp: the lemmas of the model are always
\* added to the dictionary hits
detect_diseases_nlp_always_nlp(s, env, m) ==
  LET found == DictionaryPass(DISEASE_VARIANTS, s)
      g     == get_nlp(m, env.installed)
  IN  (IF g.raised THEN Raise("spacy.load", g)
       ELSE IF env.nlp_fault = "detect_diseases_nlp" THEN Raise(env.nlp_fault, g)
       ELSE Return(sorted(found \cup
                          ({lower(env.lemmas[i]) : i \in 1..Len(env.lemmas)}
                             \cap DISEASE_LIST)), g))
      @@ [consulted |-> TRUE]

\* consulted tells whether the call reached get_nlp()
detect_diseases_nlp(s, env, m) ==
  LET found == DictionaryPass(DISEASE_VARIANTS, s)
  IN  IF found # {} THEN Return(sorted(found), m) @@ [consulted |-> FALSE]
      ELSE LET g == get_nlp(m, env.installed)
           IN  (IF g.raised THEN Raise("spacy.load", g)
                ELSE IF env.nlp_fault = "detect_diseases_nlp" THEN Raise(env.nlp_fault, g)
                ELSE Return(sorted({lower(env.lemmas[i]) : i \in 1..Len(env.lemmas)}
                                     \cap DISEASE_LIST), g))
               @@ [consulted |-> TRUE]

\* faulty variant of detect_locations: the entities of the model only
detect_locations_ner_only(s, env, m) ==
  LET g   == get_nlp(m, env.installed)
      ner == {env.ents[i].text :
                i \in {i \in 1..Len(env.ents) : env.ents[i].label \in {"GPE", "LOC"}}}
  IN  IF g.raised THEN Raise("spacy.load", g)
      ELSE IF env.nlp_fault = "detect_locations" THEN Raise(env.nlp_fault, g)
      ELSE Return(sorted(ner), g)

detect_locations(s, env, m) ==
  LET g   == get_nlp(m, env.installed)
      ner == {env.ents[i].text :
                i \in {i \in 1..Len(env.ents) : env.ents[i].label \in {"GPE", "LOC"}}}
      ar  == IF has_arabic(s)
               THEN {AR_COUNTRY_TERMS[i].en_name :
                       i \in {i \in 1..Len(AR_COUNTRY_TERMS) : In(AR_COUNTRY_TERMS[i].ar_name, s)}}
               ELSE {}
  IN  IF g.raised THEN Raise("spacy.load", g)
      ELSE IF env.nlp_fault = "detect_locations" THEN Raise(env.nlp_fault, g)
      ELSE Return(sorted(ner \cup ar), g)

detect_organisations(s, env, m) ==
  LET g == get_nlp(m, env.installed)
  IN  IF g.raised THEN Raise("spacy.load", g)
      ELSE IF env.nlp_fault = "detect_organisations" THEN Raise(env.nlp_fault, g)
      ELSE Return(sorted({env.ents[i].text :
                            i \in {i \in 1..Len(env.ents) : env.ents[i].label = "ORG"}}), g)

\* two decimal digits / four decimal digits as a str
Digits2(n) == <<48 + ((n \div 10) % 10), 48 + (n % 10)>>

Digits4(n) == <<48 + ((n \div 1000) % 10), 48 + ((n \div 100) % 10)>> \o Digits2(n)

\* dt.strftime("%d-%m-%Y")
strftime_dmy(dt) == Digits2(dt.day) \o <<45>> \o Digits2(dt.month) \o <<45>> \o Digits4(dt.year)

\* a DATE entity carries what pd.to_datetime makes of it: a date, NaT (None),
\* or an exception, which is caught
detect_dates(s, env, m) ==
  LET g == get_nlp(m, env.installed)
  IN  IF g.raised THEN Raise("spacy.load", g)
      ELSE IF env.nlp_fault = "detect_dates" THEN Raise(env.nlp_fault, g)
      ELSE Return(sorted({strftime_dmy(Get(env.ents[i].parsed)) :
                            i \in {i \in 1..Len(env.ents) :
                                     /\ env.ents[i].label = "DATE"
                                     /\ ~env.ents[i].parse_raises
                                     /\ ~IsNone(env.ents[i].parsed)}}), g)

\* faulty variant of detect_publication_source: the official terms are
\* looked for before the social media terms
detect_publication_source_official_first(s) ==
  LET text_low == lower(s)
      has(w) == In(w, text_low)
  IN  IF has(<<109,105,110,105,115,116,114,121>>)
         \/ has(<<109,105,110,105,115,116,232,114,101>>)
         \/ has(<<103,111,118>>)
        THEN "Official Source"
      ELSE IF has(<<102,97,99,101,98,111,111,107>>)
              \/ has(<<112,111,115,116,101,100,32,111,110,32,115,111,99,105,97,108,32,109,101,100,105,97>>)
        THEN "Social Media"
      ELSE IF has(<<116,119,105,116,116,101,114>>) \/ has(<<120,46,99,111,109>>)
        THEN "Social Media"
      ELSE IF has(<<112,114,101,115,115>>) \/ has(<<106,111,117,114,110,97,108>>)
              \/ has(<<110,101,119,115,32,97,103,101,110,99,121>>)
        THEN "Media"
      ELSE IF has(<<116,118>>) \/ has(<<114,97,100,105,111>>)
              \/ has(<<116,101,108,101,118,105,115,105,111,110>>)
        THEN "Media (TV/Radio)"
      ELSE "Unknown"

detect_publication_source(s) ==
  LET text_low == lower(s)
      has(w) == In(w, text_low)
  IN  IF has(<<102,97,99,101,98,111,111,107>>)
         \/ has(<<112,111,115,116,101,100,32,111,110,32,115,111,99,105,97,108,32,109,101,100,105,97>>)
        THEN "Social Media"
      ELSE IF has(<<116,119,105,116,116,101,114>>) \/ has(<<120,46,99,111,109>>)
        THEN "Social Media"
      ELSE IF has(<<109,105,110,105,115,116,114,121>>)
              \/ has(<<109,105,110,105,115,116,232,114,101>>)
              \/ has(<<103,111,118>>)
        THEN "Official Source"
      ELSE IF has(<<112,114,101,115,115>>) \/ has(<<106,111,117,114,110,97,108>>)
              \/ has(<<110,101,119,115,32,97,103,101,110,99,121>>)
        THEN "Media"
      ELSE IF has(<<116,118>>) \/ has(<<114,97,100,105,111>>)
              \/ has(<<116,101,108,101,118,105,115,105,111,110>>)
        THEN "Media (TV/Radio)"
      ELSE "Unknown"

\* faulty variant of summarize: one word too many is kept
summarize_one_more(s, word_limit) ==
  LET words == split(s)
  IN  IF Len(words) <= word_limit THEN s
      ELSE join(<<32>>, SubSeq(words, 1, word_limit + 1))

summarize(s, word_limit) ==
  LET words == split(s)
  IN  IF Len(words) <= word_limit THEN s
      ELSE join(<<32>>, SubSeq(words, 1, word_limit))

\* faulty variant of compute_sentiment: no test of the empty text
compute_sentiment_unguarded(s, polarity) ==
  IF IsNone(polarity) THEN 0 ELSE Get(polarity)

\* compute_sentiment, in hundredths; polarity is None when TextBlob raises
compute_sentiment(s, polarity) ==
  IF Len(s) = 0 THEN 0
  ELSE IF IsNone(polarity) THEN 0
  ELSE Get(polarity)

\* build_record on the module state m, with the answers env of the libraries
\* it calls.  raised names the call whose exception leaves build_record
\* ("none": it returns record); m is the module state it leaves behind.
build_record(url, title, text0, publication_date, env, m) ==
  LET s          == clean_text(text0)
      lang       == detect_language(env)
      word_count == Len(split(s))
      char_count == Len(s)
      d          == detect_diseases_nlp(s, env, m)
      l          == detect_locations(s, env, d.m)
      o          == detect_organisations(s, env, l.m)
      a          == detect_animals(s)
      t          == detect_dates(s, env, o.m)
      failed     == IF d.raised # "none" THEN d
                    ELSE IF l.raised # "none" THEN l
                    ELSE IF o.raised # "none" THEN o
                    ELSE t
  IN  IF failed.raised # "none"
        THEN [raised |-> failed.raised, m |-> failed.m, record |-> None]
        ELSE
          [raised |-> "none",
           m      |-> t.m,
           record |-> Some(
             [url |-> url,
              title |-> title,
              text |-> Some(s),
              language |-> Some(lang),
              char_count |-> Some(char_count),
              word_count |-> Some(word_count),
              publication_date_detected |->
                IF IsNone(publication_date) THEN None
                ELSE Some(strftime_dmy(Get(publication_date))),
              dates_mentioned |-> join(<<59>>, Get(t.value)),
              locations |-> join(<<59>>, Get(l.value)),
              organisations |-> join(<<59>>, Get(o.value)),
              animals |-> join(<<59>>, a),
              diseases |-> join(<<59>>, Get(d.value)),
              source_nlp |-> Some(detect_publication_source(s)),
              sentiment |-> Some(compute_sentiment(s, env.polarity)),
              summary_50 |-> Some(summarize(s, 50)),
              summary_100 |-> Some(summarize(s, 100)),
              summary_150 |-> Some(summarize(s, 150))])]

----------------------------------------------------------------------------
(* scrap.py: scrape_text *)

Step(strategy, outcome) == [strategy |-> strategy, outcome |-> outcome]

\* faulty variant of scrape_text: the fallback returns its text whatever
\* its length
scrape_text_no_floor(p, f) ==
  IF ~p.raises /\ Len(p.text) > 0 /\ Len(split(p.text)) >= 10
    THEN [title |-> Some(p.title), text |-> Some(p.text),
          pub_date |-> p.publish_date,
          trace |-> <<Step("newspaper", "accepted")>>]
  ELSE
    LET first == Step("newspaper", IF p.raises THEN "raised" ELSE "short")
    IN  IF f.raises
          THEN [title |-> None, text |-> None, pub_date |-> None,
                trace |-> <<first, Step("bs4", "raised")>>]
          ELSE
            LET body  == clean_text(join(<<10>>,
                           [i \in 1..Len(f.paragraphs) |-> strip(f.paragraphs[i])]))
                title == IF f.has_title THEN Some(strip(f.title)) ELSE None
            IN  [title |-> title, text |-> Some(body), pub_date |-> None,
                 trace |-> <<first, Step("bs4",
                                IF Len(split(body)) < 10 THEN "short" ELSE "accepted")>>]

\* faulty variant of scrape_text: the primary result is returned whenever
\* article.text is not the empty str, whatever its number of words
scrape_text_truthy_primary(p, f) ==
  IF ~p.raises /\ Len(p.text) > 0
    THEN [title |-> Some(p.title), text |-> Some(p.text),
          pub_date |-> p.publish_date,
          trace |-> <<Step("newspaper", "accepted")>>]
  ELSE
    LET first == Step("newspaper", IF p.raises THEN "raised" ELSE "short")
    IN  IF f.raises
          THEN [title |-> None, text |-> None, pub_date |-> None,
                trace |-> <<first, Step("bs4", "raised")>>]
          ELSE
            LET body  == clean_text(join(<<10>>,
                           [i \in 1..Len(f.paragraphs) |-> strip(f.paragraphs[i])]))
                short == Len(split(body)) < 10
            IN  [title |-> IF f.has_title THEN Some(strip(f.title)) ELSE None,
                 text |-> IF short THEN None ELSE Some(body), pub_date |-> None,
                 trace |-> <<first, Step("bs4", IF short THEN "short" ELSE "accepted")>>]

\* faulty variant of scrape_text: the primary result is returned whenever the
\* primary strategy does not raise
scrape_text_primary_unchecked(p, f) ==
  IF ~p.raises
    THEN [title |-> Some(p.title), text |-> Some(p.text),
          pub_date |-> p.publish_date,
          trace |-> <<Step("newspaper", "accepted")>>]
  ELSE IF f.raises
    THEN [title |-> None, text |-> None, pub_date |-> None,
          trace |-> <<Step("newspaper", "raised"), Step("bs4", "raised")>>]
  ELSE
    LET body  == clean_text(join(<<10>>,
                   [i \in 1..Len(f.paragraphs) |-> strip(f.paragraphs[i])]))
        short == Len(split(body)) < 10
    IN  [title |-> IF f.has_title THEN Some(strip(f.title)) ELSE None,
         text |-> IF short THEN None ELSE Some(body), pub_date |-> None,
         trace |-> <<Step("newspaper", "raised"),
                     Step("bs4", IF short THEN "short" ELSE "accepted")>>]

\* scrape_text(url), given what the two fetches of url answer: p is what
\* Article(url).download()/parse() gives, f what requests.get and
\* BeautifulSoup give.  trace lists the strategies it ran, in order, each with
\* its outcome: "raised" (the except clause ran), "short" (fewer than 10
\* words) or "accepted".
scrape_text(p, f) ==
  IF ~p.raises /\ Len(p.text) > 0 /\ Len(split(p.text)) >= 10
    THEN [title |-> Some(p.title), text |-> Some(p.text),
          pub_date |-> p.publish_date,
          trace |-> <<Step("newspaper", "accepted")>>]
  ELSE
    LET first == Step("newspaper", IF p.raises THEN "raised" ELSE "short")
    IN  IF f.raises
          THEN [title |-> None, text |-> None, pub_date |-> None,
                trace |-> <<first, Step("bs4", "raised")>>]
          ELSE
            LET body  == clean_text(join(<<10>>,
                           [i \in 1..Len(f.paragraphs) |-> strip(f.paragraphs[i])]))
                title == IF f.has_title THEN Some(strip(f.title)) ELSE None
            IN  IF Len(split(body)) < 10
                  THEN [title |-> title, text |-> None, pub_date |-> None,
                        trace |-> <<first, Step("bs4", "short")>>]
                  ELSE [title |-> title, text |-> Some(body), pub_date |-> None,
                        trace |-> <<first, Step("bs4", "accepted")>>]

----------------------------------------------------------------------------
(* scrap.py: run_pipeline *)

MIN_WORDS == 30

\* faulty variant of FailedRecord: the stub carries the defaults of a failed
\* enrichment instead of nulls
FailedRecordWithDefaults(url, title) ==
  [url |-> url, title |-> title, text |-> None, language |-> Some("unknown"),
   char_count |-> None, word_count |-> None,
   publication_date_detected |-> None,
   dates_mentioned |-> <<>>, locations |-> <<>>, organisations |-> <<>>,
   animals |-> <<>>, diseases |-> <<>>,
   source_nlp |-> Some("Unknown"), sentiment |-> Some(0),
   summary_50 |-> None, summary_100 |-> None, summary_150 |-> None,
   scrape_status |-> "scrape_failed"]

\* the record appended when scrape_text gave no text
FailedRecord(url, title) ==
  [url |-> url, title |-> title, text |-> None, language |-> None,
   char_count |-> None, word_count |-> None,
   publication_date_detected |-> None,
   dates_mentioned |-> <<>>, locations |-> <<>>, organisations |-> <<>>,
   animals |-> <<>>, diseases |-> <<>>,
   source_nlp |-> None, sentiment |-> None,
   summary_50 |-> None, summary_100 |-> None, summary_150 |-> None,
   scrape_status |-> "scrape_failed"]

\* the record appended when the text has fewer than MIN_WORDS words
TooShortRecord(url, title, s) ==
  [url |-> url, title |-> title, text |-> Some(s), language |-> None,
   char_count |-> Some(Len(s)), word_count |-> Some(Len(split(s))),
   publication_date_detected |-> None,
   dates_mentioned |-> <<>>, locations |-> <<>>, organisations |-> <<>>,
   animals |-> <<>>, diseases |-> <<>>,
   source_nlp |-> None, sentiment |-> None,
   summary_50 |-> None, summary_100 |-> None, summary_150 |-> None,
   scrape_status |-> "too_short"]

\* not text
NotText(o) == IsNone(o) \/ Len(Get(o)) = 0

\* faulty variant of LoopBody: a text of exactly MIN_WORDS words is too short
LoopBodyInclusive(url, r, env, m) ==
  IF NotText(r.text)
    THEN [status |-> "scrape_failed", record |-> Some(FailedRecord(url, r.title)),
          raised |-> "none", m |-> m]
  ELSE IF Len(split(Get(r.text))) <= MIN_WORDS
    THEN [status |-> "too_short",
          record |-> Some(TooShortRecord(url, r.title, Get(r.text))),
          raised |-> "none", m |-> m]
  ELSE LET b == build_record(url, r.title, Get(r.text), r.pub_date, env, m)
       IN  IF b.raised # "none"
             THEN [status |-> "raised", record |-> None, raised |-> b.raised, m |-> b.m]
             ELSE [status |-> "ok",
                   record |-> Some(Get(b.record) @@ [scrape_status |-> "ok"]),
                   raised |-> "none", m |-> b.m]

\* faulty variant of LoopBody: the threshold is compared with the number of
\* characters
LoopBodyCharCount(url, r, env, m) ==
  IF NotText(r.text)
    THEN [status |-> "scrape_failed", record |-> Some(FailedRecord(url, r.title)),
          raised |-> "none", m |-> m]
  ELSE IF Len(Get(r.text)) < MIN_WORDS
    THEN [status |-> "too_short",
          record |-> Some(TooShortRecord(url, r.title, Get(r.text))),
          raised |-> "none", m |-> m]
  ELSE LET b == build_record(url, r.title, Get(r.text), r.pub_date, env, m)
       IN  IF b.raised # "none"
             THEN [status |-> "raised", record |-> None, raised |-> b.raised, m |-> b.m]
             ELSE [status |-> "ok",
                   record |-> Some(Get(b.record) @@ [scrape_status |-> "ok"]),
                   raised |-> "none", m |-> b.m]

\* faulty variant of LoopBody: a text of fewer than MIN_WORDS words goes
\* through build_record too
LoopBodyEnrichesShort(url, r, env, m) ==
  IF NotText(r.text)
    THEN [status |-> "scrape_failed", record |-> Some(FailedRecord(url, r.title)),
          raised |-> "none", m |-> m]
  ELSE LET b  == build_record(url, r.title, Get(r.text), r.pub_date, env, m)
           st == IF Len(split(Get(r.text))) < MIN_WORDS THEN "too_short" ELSE "ok"
       IN  IF b.raised # "none"
             THEN [status |-> "raised", record |-> None, raised |-> b.raised, m |-> b.m]
             ELSE [status |-> st,
                   record |-> Some(Get(b.record) @@ [scrape_status |-> st]),
                   raised |-> "none", m |-> b.m]

\* the body of the for loop for a row with a url, after
\*   title, text, pub_date = scrape_text(url)
\* returned r.  status is the branch taken ("raised": build_record raised and
\* nothing was appended), m the module state of nlp_utils afterwards.
LoopBody(url, r, env, m) ==
  IF NotText(r.text)
    THEN [status |-> "scrape_failed", record |-> Some(FailedRecord(url, r.title)),
          raised |-> "none", m |-> m]
  ELSE IF Len(split(Get(r.text))) < MIN_WORDS
    THEN [status |-> "too_short",
          record |-> Some(TooShortRecord(url, r.title, Get(r.text))),
          raised |-> "none", m |-> m]
  ELSE LET b == build_record(url, r.title, Get(r.text), r.pub_date, env, m)
       IN  IF b.raised # "none"
             THEN [status |-> "raised", record |-> None, raised |-> b.raised, m |-> b.m]
             ELSE [status |-> "ok",
                   record |-> Some(Get(b.record) @@ [scrape_status |-> "ok"]),
                   raised |-> "none", m |-> b.m]

RECURSIVE DropFrom(_, _, _)
DropFrom(rs, i, acc) ==
  IF i > Len(rs) THEN acc
  ELSE DropFrom(rs, i + 1,
         IF \E j \in 1..Len(acc) : acc[j].url = rs[i].url
           THEN acc ELSE Append(acc, rs[i]))

RECURSIVE DropLastFrom(_, _, _)
DropLastFrom(rs, i, acc) ==
  IF i < 1 THEN acc
  ELSE DropLastFrom(rs, i - 1,
         IF \E j \in 1..Len(acc) : acc[j].url = rs[i].url
           THEN acc ELSE <<rs[i]>> \o acc)

\* faulty variant of drop_duplicates: keep="last"
drop_duplicates_keep_last(rs) == DropLastFrom(rs, Len(rs), <<>>)

\* df.drop_duplicates(subset=["url"], keep="first")
drop_duplicates(rs) == DropFrom(rs, 1, <<>>)

----------------------------------------------------------------------------
(* The inputs of the model *)

MaxRows == 2

MaxLoads == 2

URLS == {"u1", "u2"}

\* a url cell that is falsy (the row is skipped)
NoUrl == ""

RowCells == URLS \cup {NoUrl}

RECURSIVE SeqsUpTo(_, _)
SeqsUpTo(S, n) ==
  IF n = 0 THEN {<<>>}
  ELSE LET shorter == SeqsUpTo(S, n - 1)
       IN  shorter \cup {Append(q, x) : q \in {q \in shorter : Len(q) = n - 1}, x \in S}

\* n one-letter words, sep between them
Pad(n, sep) == join(sep, [i \in 1..n |-> <<119>>])

\* "Outbreak"
TitleArticle == <<79,117,116,98,114,101,97,107>>

\* "  Health News \n", the text of a <title> element
TitlePage == <<32,32,72,101,97,108,116,104,32,78,101,119,115,32,10>>

\* Arabic: "in Egypt among cows" (4 words, no disease term)
TextArabicEgypt == <<1601,1610,32,1605,1589,1585,32,1576,1610,1606,32,1571,1576,1602,1575,1585>>

Date1 == [day |-> 5, month |-> 3, year |-> 2024]

RaisedFetch ==
  [raises |-> TRUE, title |-> <<>>, text |-> <<>>, publish_date |-> None]

Article(title, body, date) ==
  [raises |-> FALSE, title |-> title, text |-> body, publish_date |-> date]

\* what the primary strategy can find at a url
PrimaryOutcomes ==
  { RaisedFetch,
    \* nothing extracted
    Article(<<>>, <<>>, None),
    \* white space only
    Article(TitleArticle, <<32, 10, 32>>, None),
    \* 9 words
    Article(TitleArticle, Pad(9, <<32>>), Some(Date1)),
    \* 13 words and the end of the line
    Article(TitleArticle, TextExample \o <<10>>, Some(Date1)),
    \* 30 words, with the white space the page had
    Article(TitleArticle,
            <<10>> \o TextExample \o <<10, 10>> \o Pad(17, <<32, 32>>) \o <<32, 10>>,
            Some(Date1)),
    \* 151 words, one on each line
    Article(TitleArticle, Pad(151, <<10>>) \o <<10>>, None) }

RaisedGet == [raises |-> TRUE, has_title |-> FALSE, title |-> <<>>, paragraphs |-> <<>>]

Page(has_title, title, paragraphs) ==
  [raises |-> FALSE, has_title |-> has_title, title |-> title, paragraphs |-> paragraphs]

\* what the fallback strategy can find at a url
FallbackOutcomes ==
  { RaisedGet,
    \* no <p> at all
    Page(TRUE, TitlePage, <<>>),
    \* 9 words in two paragraphs
    Page(TRUE, TitlePage, <<Pad(4, <<32>>), <<32>> \o Pad(5, <<32, 32>>)>>),
    \* 29 words in two paragraphs, no <title>
    Page(FALSE, <<>>, <<Pad(14, <<32>>), Pad(15, <<9>>) \o <<32>>>>),
    \* 30 words in two paragraphs, Arabic
    Page(TRUE, TitlePage, <<TextArabicEgypt, Pad(26, <<32>>)>>),
    \* 75 words in three paragraphs
    Page(TRUE, TitlePage, <<Pad(25, <<32>>), Pad(25, <<32, 32>>), Pad(25, <<9>>)>>) }

Entity(s, label) ==
  [text |-> s, label |-> label, parsed |-> None, parse_raises |-> FALSE]

EntsGood ==
  << Entity(<<67,97,105,114,111>>, "GPE"),          \* "Cairo"
     Entity(<<69,103,121,112,116>>, "LOC"),         \* "Egypt"
     Entity(<<67,97,105,114,111>>, "GPE"),
     Entity(<<87,72,79>>, "ORG"),                   \* "WHO"
     Entity(<<65,108,105>>, "PER"),                 \* "Ali"
     \* "12 March 2024"
     [text |-> <<49,50,32,77,97,114,99,104,32,50,48,50,52>>, label |-> "DATE",
      parsed |-> Some([day |-> 12, month |-> 3, year |-> 2024]), parse_raises |-> FALSE],
     \* "last week": NaT
     [text |-> <<108,97,115,116,32,119,101,101,107>>, label |-> "DATE",
      parsed |-> None, parse_raises |-> FALSE],
     \* a candidate on which pd.to_datetime raises
     [text |-> <<48>>, label |-> "DATE", parsed |-> None, parse_raises |-> TRUE] >>

EnvGood ==
  [installed |-> TRUE, lang |-> Some("en"),
   lemmas |-> << <<68,101,110,103,117,101>>, <<99,97,115,101>> >>,   \* "Dengue", "case"
   nlp_fault |-> "none", ents |-> EntsGood, polarity |-> Some(25)]

\* what the libraries build_record calls can answer for one article
EnrichOutcomes ==
  LET answers ==
        { EnvGood,
          \* langdetect and TextBlob raise, the model finds nothing
          [installed |-> TRUE, lang |-> None, lemmas |-> <<>>, nlp_fault |-> "none",
           ents |-> <<>>, polarity |-> None] }
        \cup
        \* nlp(text) raises in one of the detectors
        { [EnvGood EXCEPT !.nlp_fault = step] :
            step \in {"detect_diseases_nlp", "detect_locations",
                      "detect_organisations", "detect_dates"} }
  IN  {[e EXCEPT !.installed = b] : e \in answers, b \in BOOLEAN}

\* every call of scrape_text: what the fetches answer and what it returns
ScrapeCalls ==
  {[p |-> p, f |-> f, r |-> scrape_text(p, f)] :
     p \in PrimaryOutcomes, f \in FallbackOutcomes}

\* the values scrape_text can return
ScrapeOutcomes == {c.r : c \in ScrapeCalls}

\* the states of the module nlp_utils: _NLP and the number of loads so far
ModuleStates ==
  {[NLP |-> None, loads |-> k, raised |-> FALSE] : k \in 0..MaxLoads}
  \cup {[NLP |-> Some(k), loads |-> k, raised |-> FALSE] : k \in 1..MaxLoads}

\* every way one iteration of the loop can go
Iterations ==
  {[url |-> u, r |-> r, env |-> e, m |-> m, out |-> LoopBody(u, r, e, m)] :
     u \in URLS, r \in ScrapeOutcomes, e \in EnrichOutcomes, m \in ModuleStates}

----------------------------------------------------------------------------
(* run_pipeline as a state machine: one step per row of df_urls *)

ModuleState == [NLP |-> NLP, loads |-> loads, raised |-> FALSE]

Init ==
  /\ df_urls \in SeqsUpTo(RowCells, MaxRows)
  /\ model_installed \in BOOLEAN
  /\ pc = "loop"
  /\ row = 0
  /\ results = <<>>
  /\ scraped = <<>>
  /\ failed_count = 0
  /\ too_short_count = 0
  /\ raised = "none"
  /\ df_final = None
  /\ summary = None
  /\ NLP = None
  /\ loads = 0
  /\ text = <<>>
  /\ animals = None
  /\ diseases = None
  /\ fetch = None
  /\ scrape_ret = None
  /\ call_raised = "none"
  /\ consulted = FALSE
  /\ source_nlp = None
  /\ scorer = None
  /\ sentiment = None
  /\ nlp_ret = None
  /\ locations = None
  /\ wpc = <<>>
  /\ wlocal = <<>>
  /\ wret = <<>>

\* a row without url: continue
SkipRow ==
  /\ pc = "loop"
  /\ row < Len(df_urls)
  /\ df_urls[row + 1] = NoUrl
  /\ row' = row + 1
  /\ UNCHANGED <<df_urls, pc, results, scraped, failed_count, too_short_count,
                 raised, df_final, summary, NLP, loads, model_installed>>
  /\ UNCHANGED caller_vars
  /\ UNCHANGED worker_vars

\* the iterations open to the next row
Open(status) ==
  {it \in Iterations :
     /\ it.url = df_urls[row + 1]
     /\ it.m = ModuleState
     /\ it.env.installed = model_installed
     /\ it.out.status = status}

\* a row whose text is missing or empty
RowFailed ==
  /\ pc = "loop"
  /\ row < Len(df_urls)
  /\ df_urls[row + 1] # NoUrl
  /\ \E it \in Open("scrape_failed") :
       /\ scraped' = Append(scraped, it.r)
       /\ failed_count' = failed_count + 1
       /\ results' = Append(results, Get(it.out.record))
       /\ NLP' = it.out.m.NLP
       /\ loads' = it.out.m.loads
  /\ row' = row + 1
  /\ UNCHANGED <<df_urls, pc, too_short_count, raised, df_final, summary,
                 model_installed>>
  /\ UNCHANGED caller_vars
  /\ UNCHANGED worker_vars

\* a row whose text has fewer than MIN_WORDS words
RowTooShort ==
  /\ pc = "loop"
  /\ row < Len(df_urls)
  /\ df_urls[row + 1] # NoUrl
  /\ \E it \in Open("too_short") :
       /\ scraped' = Append(scraped, it.r)
       /\ too_short_count' = too_short_count + 1
       /\ results' = Append(results, Get(it.out.record))
       /\ NLP' = it.out.m.NLP
       /\ loads' = it.out.m.loads
  /\ row' = row + 1
  /\ UNCHANGED <<df_urls, pc, failed_count, raised, df_final, summary,
                 model_installed>>
  /\ UNCHANGED caller_vars
  /\ UNCHANGED worker_vars

\* a row passed to build_record, which returns
RowOk ==
  /\ pc = "loop"
  /\ row < Len(df_urls)
  /\ df_urls[row + 1] # NoUrl
  /\ \E it \in Open("ok") :
       /\ scraped' = Append(scraped, it.r)
       /\ results' = Append(results, Get(it.out.record))
       /\ NLP' = it.out.m.NLP
       /\ loads' = it.out.m.loads
  /\ row' = row + 1
  /\ UNCHANGED <<df_urls, pc, failed_count, too_short_count, raised, df_final,
                 summary, model_installed>>
  /\ UNCHANGED caller_vars
  /\ UNCHANGED worker_vars

\* a row passed to build_record, which raises: nothing in run_pipeline
\* catches it
RowRaises ==
  /\ pc = "loop"
  /\ row < Len(df_urls)
  /\ df_urls[row + 1] # NoUrl
  /\ \E it \in Open("raised") :
       /\ scraped' = Append(scraped, it.r)
       /\ raised' = it.out.raised
       /\ NLP' = it.out.m.NLP
       /\ loads' = it.out.m.loads
  /\ pc' = "aborted"
  /\ row' = row + 1
  /\ UNCHANGED <<df_urls, results, failed_count, too_short_count, df_final,
                 summary, model_installed>>
  /\ UNCHANGED caller_vars
  /\ UNCHANGED worker_vars

\* the counts of the summary run_pipeline logs after writing the dataset
LogSummary(total_urls, failed, too_short) ==
  [total |-> total_urls, success |-> total_urls - failed,
   failed |-> failed, too_short |-> too_short]

\* after the loop: return without output when results is empty, else
\* drop the duplicates, write the dataset and log the summary
Finish ==
  /\ pc = "loop"
  /\ row = Len(df_urls)
  /\ pc' = "done"
  /\ df_final' = IF Len(results) = 0 THEN None ELSE Some(drop_duplicates(results))
  /\ summary' = IF Len(results) = 0 THEN None
                ELSE Some(LogSummary(Len(df_urls), failed_count, too_short_count))
  /\ UNCHANGED <<df_urls, row, results, scraped, failed_count, too_short_count,
                 raised, NLP, loads, model_installed>>
  /\ UNCHANGED caller_vars
  /\ UNCHANGED worker_vars

Next == SkipRow \/ RowFailed \/ RowTooShort \/ RowOk \/ RowRaises \/ Finish

Spec == Init /\ [][Next]_vars

----------------------------------------------------------------------------
(* The detectors called directly, on one text after another, in one process *)

SampleTexts ==
  {TextExample, TextGoatArabic, TextUpper, TextPlain, TextSubstring, TextFrench,
   TextEmpty, TextDengue, TextArabicMixed, TextRift,
   TextFacebookMinistry, TextPressTv, TextRadio, TextMinistere, TextEmirates}

InitCalls ==
  /\ text \in SampleTexts
  /\ model_installed \in BOOLEAN
  /\ animals = None
  /\ diseases = None
  /\ fetch = None
  /\ scrape_ret = None
  /\ call_raised = "none"
  /\ NLP = None
  /\ loads = 0
  /\ pc = "calls"
  /\ df_urls = <<>>
  /\ row = 0
  /\ results = <<>>
  /\ scraped = <<>>
  /\ failed_count = 0
  /\ too_short_count = 0
  /\ raised = "none"
  /\ df_final = None
  /\ summary = None
  /\ consulted = FALSE
  /\ source_nlp = None
  /\ scorer = None
  /\ sentiment = None
  /\ nlp_ret = None
  /\ locations = None
  /\ wpc = <<>>
  /\ wlocal = <<>>
  /\ wret = <<>>

\* every call of detect_animals on a sample text
AnimalCalls == {[text |-> t, ret |-> detect_animals(t)] : t \in SampleTexts}

\* every call of detect_diseases_nlp on a sample text
DiseaseCalls ==
  {[text |-> t, env |-> e, m |-> m, out |-> detect_diseases_nlp(t, e, m)] :
     t \in SampleTexts, e \in EnrichOutcomes, m \in ModuleStates}

\* The caller keeps the result of its last call only.

CallDetectAnimals ==
  /\ pc = "calls"
  /\ \E c \in AnimalCalls :
       /\ c.text = text
       /\ animals' = Some(c.ret)
  /\ diseases' = None
  /\ fetch' = None
  /\ scrape_ret' = None
  /\ call_raised' = "none"
  /\ consulted' = FALSE
  /\ source_nlp' = None
  /\ scorer' = None
  /\ sentiment' = None
  /\ nlp_ret' = None
  /\ locations' = None
  /\ UNCHANGED <<text, NLP, loads, model_installed>>
  /\ UNCHANGED pipeline_vars
  /\ UNCHANGED worker_vars

CallDetectDiseases ==
  /\ pc = "calls"
  /\ \E c \in DiseaseCalls :
       /\ c.text = text
       /\ c.m = ModuleState
       /\ c.env.installed = model_installed
       /\ c.out.m.loads <= MaxLoads
       /\ diseases' = c.out.value
       /\ call_raised' = c.out.raised
       /\ consulted' = c.out.consulted
       /\ NLP' = c.out.m.NLP
       /\ loads' = c.out.m.loads
  /\ animals' = None
  /\ fetch' = None
  /\ scrape_ret' = None
  /\ source_nlp' = None
  /\ scorer' = None
  /\ sentiment' = None
  /\ nlp_ret' = None
  /\ locations' = None
  /\ UNCHANGED <<text, model_installed>>
  /\ UNCHANGED pipeline_vars
  /\ UNCHANGED worker_vars

CallScrapeText ==
  /\ pc = "calls"
  /\ \E c \in ScrapeCalls :
       /\ fetch' = Some([p |-> c.p, f |-> c.f])
       /\ scrape_ret' = Some(c.r)
  /\ animals' = None
  /\ diseases' = None
  /\ call_raised' = "none"
  /\ consulted' = FALSE
  /\ source_nlp' = None
  /\ scorer' = None
  /\ sentiment' = None
  /\ nlp_ret' = None
  /\ locations' = None
  /\ UNCHANGED <<text, NLP, loads, model_installed>>
  /\ UNCHANGED pipeline_vars
  /\ UNCHANGED worker_vars

\* every call of detect_locations on a sample text
LocationCalls ==
  {[text |-> t, env |-> e, m |-> m, out |-> detect_locations(t, e, m)] :
     t \in SampleTexts, e \in EnrichOutcomes, m \in ModuleStates}

CallDetectLocations ==
  /\ pc = "calls"
  /\ \E c \in LocationCalls :
       /\ c.text = text
       /\ c.m = ModuleState
       /\ c.env.installed = model_installed
       /\ c.out.m.loads <= MaxLoads
       /\ locations' = c.out.value
       /\ call_raised' = c.out.raised
       /\ NLP' = c.out.m.NLP
       /\ loads' = c.out.m.loads
  /\ animals' = None
  /\ diseases' = None
  /\ fetch' = None
  /\ scrape_ret' = None
  /\ consulted' = FALSE
  /\ source_nlp' = None
  /\ scorer' = None
  /\ sentiment' = None
  /\ nlp_ret' = None
  /\ UNCHANGED <<text, model_installed>>
  /\ UNCHANGED pipeline_vars
  /\ UNCHANGED worker_vars

\* every call of detect_publication_source on a sample text
SourceCalls ==
  {[text |-> t, ret |-> detect_publication_source(t)] : t \in SampleTexts}

CallDetectSource ==
  /\ pc = "calls"
  /\ \E c \in SourceCalls :
       /\ c.text = text
       /\ source_nlp' = Some(c.ret)
  /\ animals' = None
  /\ diseases' = None
  /\ fetch' = None
  /\ scrape_ret' = None
  /\ call_raised' = "none"
  /\ consulted' = FALSE
  /\ scorer' = None
  /\ sentiment' = None
  /\ nlp_ret' = None
  /\ locations' = None
  /\ UNCHANGED <<text, NLP, loads, model_installed>>
  /\ UNCHANGED pipeline_vars
  /\ UNCHANGED worker_vars

\* get_nlp() called directly; loaded tells whether this call loaded the model
CallGetNlp ==
  /\ pc = "calls"
  /\ LET g == get_nlp(ModuleState, model_installed)
     IN  /\ g.loads <= MaxLoads
         /\ NLP' = g.NLP
         /\ loads' = g.loads
         /\ call_raised' = IF g.raised THEN "spacy.load" ELSE "none"
         /\ nlp_ret' = IF g.raised THEN None
                       ELSE Some([instance |-> Get(g.NLP), loaded |-> g.loads # loads])
  /\ animals' = None
  /\ diseases' = None
  /\ fetch' = None
  /\ scrape_ret' = None
  /\ consulted' = FALSE
  /\ source_nlp' = None
  /\ scorer' = None
  /\ sentiment' = None
  /\ locations' = None
  /\ UNCHANGED <<text, model_installed>>
  /\ UNCHANGED pipeline_vars
  /\ UNCHANGED worker_vars

\* what TextBlob(text).sentiment.polarity can answer, in hundredths: a
\* float of [-1.0, 1.0], or an exception (None)
ScorerAnswers == {None} \cup {Some(v) : v \in {-100, -40, 0, 25, 100}}

CallComputeSentiment ==
  /\ pc = "calls"
  /\ \E a \in ScorerAnswers :
       /\ scorer' = Some(a)
       /\ sentiment' = Some(compute_sentiment(text, a))
  /\ animals' = None
  /\ diseases' = None
  /\ fetch' = None
  /\ scrape_ret' = None
  /\ call_raised' = "none"
  /\ consulted' = FALSE
  /\ source_nlp' = None
  /\ nlp_ret' = None
  /\ locations' = None
  /\ UNCHANGED <<text, NLP, loads, model_installed>>
  /\ UNCHANGED pipeline_vars
  /\ UNCHANGED worker_vars

\* the caller goes on to another text
NextText ==
  /\ pc = "calls"
  /\ text' \in SampleTexts
  /\ animals' = None
  /\ diseases' = None
  /\ fetch' = None
  /\ scrape_ret' = None
  /\ call_raised' = "none"
  /\ consulted' = FALSE
  /\ source_nlp' = None
  /\ scorer' = None
  /\ sentiment' = None
  /\ nlp_ret' = None
  /\ locations' = None
  /\ UNCHANGED <<NLP, loads, model_installed>>
  /\ UNCHANGED pipeline_vars
  /\ UNCHANGED worker_vars

NextCalls ==
  \/ CallDetectAnimals
  \/ CallDetectDiseases
  \/ CallScrapeText
  \/ CallComputeSentiment
  \/ CallDetectLocations
  \/ CallGetNlp
  \/ CallDetectSource
  \/ NextText

SpecCalls == InitCalls /\ [][NextCalls]_vars

----------------------------------------------------------------------------
(* get_nlp() called by several workers of one process at the same time.   *)
(* A worker runs the statements of get_nlp one at a time; between two of   *)
(* them any other worker may run.                                          *)

NumWorkers == 2

Workers == 1..NumWorkers

InitWorkers ==
  /\ wpc = [w \in Workers |-> "idle"]
  /\ wlocal = [w \in Workers |-> None]
  /\ wret = [w \in Workers |-> None]
  /\ model_installed \in BOOLEAN
  /\ NLP = None
  /\ loads = 0
  /\ pc = "workers"
  /\ df_urls = <<>>
  /\ row = 0
  /\ results = <<>>
  /\ scraped = <<>>
  /\ failed_count = 0
  /\ too_short_count = 0
  /\ raised = "none"
  /\ df_final = None
  /\ summary = None
  /\ text = <<>>
  /\ animals = None
  /\ diseases = None
  /\ fetch = None
  /\ scrape_ret = None
  /\ call_raised = "none"
  /\ consulted = FALSE
  /\ source_nlp = None
  /\ scorer = None
  /\ sentiment = None
  /\ nlp_ret = None
  /\ locations = None

\* worker w calls get_nlp()
WCall(w) ==
  /\ wpc[w] = "idle"
  /\ wpc' = [wpc EXCEPT ![w] = "test"]
  /\ wlocal' = [wlocal EXCEPT ![w] = None]
  /\ wret' = [wret EXCEPT ![w] = None]
  /\ UNCHANGED <<NLP, loads, model_installed>>
  /\ UNCHANGED pipeline_vars
  /\ UNCHANGED caller_vars

\* if _NLP is None:
WTest(w) ==
  /\ wpc[w] = "test"
  /\ wpc' = [wpc EXCEPT ![w] = IF IsNone(NLP) THEN "load" ELSE "return"]
  /\ UNCHANGED <<wlocal, wret, NLP, loads, model_installed>>
  /\ UNCHANGED pipeline_vars
  /\ UNCHANGED caller_vars

\* spacy.load(SPACY_MODEL) returns a new instance
WLoad(w) ==
  /\ wpc[w] = "load"
  /\ model_installed
  /\ loads < MaxLoads
  /\ loads' = loads + 1
  /\ wlocal' = [wlocal EXCEPT ![w] = Some(loads + 1)]
  /\ wpc' = [wpc EXCEPT ![w] = "store"]
  /\ UNCHANGED <<wret, NLP, model_installed>>
  /\ UNCHANGED pipeline_vars
  /\ UNCHANGED caller_vars

\* spacy.load(SPACY_MODEL) raises: the exception leaves get_nlp
WLoadRaises(w) ==
  /\ wpc[w] = "load"
  /\ ~model_installed
  /\ loads < MaxLoads
  /\ loads' = loads + 1
  /\ wpc' = [wpc EXCEPT ![w] = "idle"]
  /\ UNCHANGED <<wlocal, wret, NLP, model_installed>>
  /\ UNCHANGED pipeline_vars
  /\ UNCHANGED caller_vars

\* _NLP = <the instance spacy.load returned>
WStore(w) ==
  /\ wpc[w] = "store"
  /\ NLP' = wlocal[w]
  /\ wpc' = [wpc EXCEPT ![w] = "return"]
  /\ UNCHANGED <<wlocal, wret, loads, model_installed>>
  /\ UNCHANGED pipeline_vars
  /\ UNCHANGED caller_vars

\* return _NLP
WReturn(w) ==
  /\ wpc[w] = "return"
  /\ wret' = [wret EXCEPT ![w] = NLP]
  /\ wpc' = [wpc EXCEPT ![w] = "idle"]
  /\ UNCHANGED <<wlocal, NLP, loads, model_installed>>
  /\ UNCHANGED pipeline_vars
  /\ UNCHANGED caller_vars

NextWorkers ==
  \E w \in Workers :
    \/ WCall(w)
    \/ WTest(w)
    \/ WLoad(w)
    \/ WLoadRaises(w)
    \/ WStore(w)
    \/ WReturn(w)

SpecWorkers == InitWorkers /\ [][NextWorkers]_vars

----------------------------------------------------------------------------
(* Properties of run_pipeline (checked under Spec) *)

\* number of words of a str
Words(s) == Len(split(s))

\* the number of words of each body scrape_text can return, computed once
BodyWordCounts ==
  {[body |-> Get(r.text), n |-> Words(Get(r.text))] :
     r \in {r \in ScrapeOutcomes : ~IsNone(r.text)}}

\* number of words of a body returned by scrape_text
BodyWords(s) == (CHOOSE e \in BodyWordCounts : e.body = s).n

\* the url cells of df_urls that are not skipped, in input order
UrlCells == SelectSeq(df_urls, LAMBDA c : c # NoUrl)

Statuses(rs) == {rs[k].scrape_status : k \in 1..Len(rs)}

C2_WordCountMatchesStatus ==
  \A k \in 1..Len(results) :
    LET rec == results[k]
    IN  /\ rec.scrape_status = "ok" =>
             ~IsNone(rec.word_count) /\ Get(rec.word_count) >= MIN_WORDS
        /\ rec.scrape_status = "too_short" =>
             ~IsNone(rec.word_count) /\ Get(rec.word_count) < MIN_WORDS
        /\ rec.scrape_status = "scrape_failed" => IsNone(rec.text)

\* an ok record whose stored text is not the body the threshold was tested on
C2_Witness ==
  \E k \in 1..Len(results) :
    /\ results[k].scrape_status = "ok"
    /\ Get(results[k].text) # Get(scraped[k].text)
    /\ Get(results[k].word_count) = MIN_WORDS

\* C3: the dataset written has no two rows with the same url, has at most as
\* many rows as the input, and consists of the record of the first occurrence
\* of each url, in input order.
C3_DedupKeepsFirst ==
  ~IsNone(df_final) =>
    LET out   == Get(df_final)
        first == {k \in 1..Len(results) :
                    \A j \in 1..(k - 1) : results[j].url # results[k].url}
    IN  /\ Len(out) <= Len(df_urls)
        /\ \A i, j \in 1..Len(out) : i # j => out[i].url # out[j].url
        /\ \A k \in 1..Len(results) : results[k].url = UrlCells[k]
        /\ Len(out) = Cardinality(first)
        /\ \A k \in first :
             out[Cardinality({j \in first : j < k}) + 1] = results[k]

\* a url occurs twice, with different records
C3_Witness ==
  /\ ~IsNone(df_final)
  /\ Len(results) = 2
  /\ results[1].url = results[2].url
  /\ results[1].scrape_status # results[2].scrape_status
  /\ Len(Get(df_final)) = 1

\* C4 (as claimed): when run_pipeline has ended, scrape_text has been called
\* on every url of the list, whatever happened on the earlier ones.  Stated
\* for the runs in which the model can be loaded: its absence is the one
\* failure meant to end the run (C8).
C4_EveryUrlAttempted ==
  (model_installed /\ pc \in {"done", "aborted"}) => Len(scraped) = Len(UrlCells)

\* both strategies of a call ran and neither was accepted
BothFailed(r) ==
  /\ Len(r.trace) = 2
  /\ \A i \in 1..2 : r.trace[i].outcome # "accepted"

\* C5: when both strategies fail, scrape_text returns no body (it raises
\* nothing: the iteration completes) and the record stored for the url has
\* status scrape_failed and empty or null enrichment fields.
C5_BothFailGivesStub ==
  \A k \in 1..Len(scraped) :
    BothFailed(scraped[k]) =>
      /\ IsNone(scraped[k].text)
      /\ k <= Len(results)
      /\ LET rec == results[k]
         IN  /\ rec.scrape_status = "scrape_failed"
             /\ rec.url = UrlCells[k]
             /\ rec.dates_mentioned = <<>>
             /\ rec.locations = <<>>
             /\ rec.organisations = <<>>
             /\ rec.animals = <<>>
             /\ rec.diseases = <<>>
             /\ IsNone(rec.language)
             /\ IsNone(rec.source_nlp)
             /\ IsNone(rec.sentiment)
             /\ IsNone(rec.summary_50)
             /\ IsNone(rec.summary_100)
             /\ IsNone(rec.summary_150)

\* both fetches raised (for instance HTTP 404 twice)
C5_Witness ==
  \E k \in 1..Len(results) :
    /\ scraped[k].trace = <<Step("newspaper", "raised"), Step("bs4", "raised")>>
    /\ results[k].scrape_status = "scrape_failed"

\* C7 (as claimed): no failure of an enrichment sub-step leaves build_record.
C7_SubStepsIsolated ==
  raised \notin {"detect_diseases_nlp", "detect_locations",
                 "detect_organisations", "detect_dates"}

\* C8 (as claimed): without the model, the run aborts before any url is
\* fetched and writes nothing.
C8_AbortsAtStartup ==
  ~model_installed => (Len(scraped) = 0 /\ IsNone(df_final))

\* C8 (amended): without the model, run_pipeline aborts, with nothing
\* written, at the first url whose body has at least MIN_WORDS words (the model
\* is loaded at the first build_record); the urls before it are fetched, no
\* record is ever ok, and a run in which no url reaches build_record ends
\* normally and writes its dataset if it collected a record.
C8_AbortsAtFirstOkArticle ==
  ~model_installed =>
    /\ \A k \in 1..Len(results) : results[k].scrape_status # "ok"
    /\ \A k \in 1..Len(scraped) :
         (~IsNone(scraped[k].text) /\ BodyWords(Get(scraped[k].text)) >= MIN_WORDS)
           => (pc = "aborted" /\ k = Len(scraped))
    /\ pc = "aborted" =>
         /\ raised = "spacy.load"
         /\ IsNone(df_final)
         /\ LET body == scraped[Len(scraped)].text
            IN  ~IsNone(body) /\ BodyWords(Get(body)) >= MIN_WORDS
    /\ pc = "done" => (IsNone(df_final) <=> Len(results) = 0)

\* the run aborted on its second url, after the first was fetched and stored
C8_Witness ==
  /\ ~model_installed
  /\ pc = "aborted"
  /\ raised = "spacy.load"
  /\ Len(scraped) = 2
  /\ Len(results) = 1

----------------------------------------------------------------------------
(* Properties of the functions called directly (checked under SpecCalls) *)

\* C6: scrape_text returns a body only if it has at least 10 words; when the
\* fallback fetch succeeds with fewer than 10 words of paragraph text it
\* returns (page title, None, None); when the fallback raises it returns
\* (None, None, None); no body is returned only after both strategies ran.
C6_BodyHasTenWords ==
  ~IsNone(scrape_ret) =>
    LET r          == Get(scrape_ret)
        p          == Get(fetch).p
        f          == Get(fetch).f
        primary_ok == ~p.raises /\ Words(p.text) >= 10
        page_words == Words(join(<<32>>, f.paragraphs))
        page_title == IF f.has_title THEN Some(strip(f.title)) ELSE None
    IN  /\ ~IsNone(r.text) => Words(Get(r.text)) >= 10
        /\ (~primary_ok /\ ~f.raises /\ page_words < 10) =>
             (r.title = page_title /\ IsNone(r.text) /\ IsNone(r.pub_date))
        /\ (~primary_ok /\ f.raises) =>
             (IsNone(r.title) /\ IsNone(r.text) /\ IsNone(r.pub_date))
        /\ IsNone(r.text) =>
             /\ Len(r.trace) = 2
             /\ r.trace[1].strategy = "newspaper"
             /\ r.trace[2].strategy = "bs4"

\* the fallback found a page with a title and fewer than 10 words
C6_Witness ==
  /\ ~IsNone(scrape_ret)
  /\ ~IsNone(Get(scrape_ret).title)
  /\ IsNone(Get(scrape_ret).text)
  /\ Len(Get(fetch).f.paragraphs) = 2

\* C9 (as claimed): detect_diseases_nlp of the example text contains
\* "avian flu".
C9_ExampleHasAvianFlu ==
  (text = TextExample /\ ~IsNone(diseases)) =>
    \E i \in 1..Len(Get(diseases)) :
      Get(diseases)[i] = <<97,118,105,97,110,32,102,108,117>>

\* a variant in Arabic script
IsArabicStr(v) == \E i \in 1..Len(v) : v[i] \in 1536..1791

\* the variant v occurs in s: compared letter by letter without case for a
\* Latin variant, exactly for an Arabic one
Occurs(v, s) ==
  \E off \in 0..(Len(s) - Len(v)) :
    \A k \in 1..Len(v) :
      IF IsArabicStr(v) THEN s[off + k] = v[k]
      ELSE LowerChar(s[off + k]) = LowerChar(v[k])

\* C10: detect_animals returns exactly the canonical terms of ANIMAL_VARIANTS
\* with a variant occurring in the text, sorted and without duplicates; the
\* Arabic word for goat gives "goat", "chickens and cows" gives "chicken" and
\* "cow".
C10_AnimalsAreDictionaryHits ==
  ~IsNone(animals) =>
    LET out   == Get(animals)
        terms == {out[i] : i \in 1..Len(out)}
    IN  /\ \A i \in 1..(Len(out) - 1) : StrLess(out[i], out[i + 1])
        /\ \A t \in terms : \E c \in 1..Len(ANIMAL_VARIANTS) : ANIMAL_VARIANTS[c].canon = t
        /\ \A c \in 1..Len(ANIMAL_VARIANTS) :
             ANIMAL_VARIANTS[c].canon \in terms
               <=> \E j \in 1..Len(ANIMAL_VARIANTS[c].variants) :
                     Occurs(ANIMAL_VARIANTS[c].variants[j], text)
        /\ text = TextGoatArabic => <<103,111,97,116>> \in terms
        /\ text = TextExample =>
             {<<99,104,105,99,107,101,110>>, <<99,111,119>>} \subseteq terms

\* upper-case Latin text: both terms found through the lower-cased text
C10_Witness ==
  /\ text = TextUpper
  /\ animals = Some(<< <<99,104,105,99,107,101,110>>, <<99,111,119>> >>)

----------------------------------------------------------------------------
(* The summaries of a record *)

\* the records build_record can return to the loop
OkRecords ==
  {Get(it.out.record) : it \in {it \in Iterations : it.out.status = "ok"}}

\* the number of words of their texts and summaries, computed once
SummaryWordCounts ==
  {[s |-> s, n |-> Words(s)] :
     s \in UNION {{Get(r.text), Get(r.summary_50), Get(r.summary_100),
                    Get(r.summary_150)} : r \in OkRecords}}

SummaryWords(s) == (CHOOSE e \in SummaryWordCounts : e.s = s).n

\* a is the beginning of b, character by character
IsPrefix(a, b) == Len(a) <= Len(b) /\ SubSeq(b, 1, Len(a)) = a

\* the summary x of the text t is cut after limit words
IsSummary(x, t, limit) ==
  /\ IsPrefix(x, t)
  /\ SummaryWords(x) <= limit
  /\ SummaryWords(t) <= limit => x = t
  /\ SummaryWords(t) > limit => SummaryWords(x) = limit

\* C11: in every record of status ok, summary_50, summary_100 and
\* summary_150 have at most 50, 100 and 150 words, each is the beginning of
\* the cleaned text (the whole text when it has no more words than the
\* limit), and each shorter summary is the beginning of the longer one.
C11_SummariesArePrefixes ==
  \A k \in 1..Len(results) :
    results[k].scrape_status = "ok" =>
      LET t    == Get(results[k].text)
          s50  == Get(results[k].summary_50)
          s100 == Get(results[k].summary_100)
          s150 == Get(results[k].summary_150)
      IN  /\ IsSummary(s50, t, 50)
          /\ IsSummary(s100, t, 100)
          /\ IsSummary(s150, t, 150)
          /\ IsPrefix(s50, s100)
          /\ IsPrefix(s100, s150)

\* a record whose text has more than 150 words: the three summaries are
\* cut, and differ
C11_Witness ==
  \E k \in 1..Len(results) :
    /\ results[k].scrape_status = "ok"
    /\ SummaryWords(Get(results[k].text)) > 150
    /\ Len(Get(results[k].summary_50)) < Len(Get(results[k].summary_100))
    /\ Len(Get(results[k].summary_100)) < Len(Get(results[k].summary_150))
    /\ Len(Get(results[k].summary_150)) < Len(Get(results[k].text))

----------------------------------------------------------------------------
(* compute_sentiment *)

\* C12: compute_sentiment returns, without raising, a score of [-1.0, 1.0]:
\* 0.0 for the empty text, 0.0 when the scorer raises, and the polarity the
\* scorer answers otherwise.
C12_SentimentTotal ==
  ~IsNone(sentiment) =>
    LET v == Get(sentiment)
        a == Get(scorer)
    IN  /\ call_raised = "none"
        /\ v \in -100..100
        /\ Len(text) = 0 => v = 0
        /\ (Len(text) > 0 /\ IsNone(a)) => v = 0
        /\ (Len(text) > 0 /\ ~IsNone(a)) => v = Get(a)

\* the scorer raised on a text that is not empty
C12_Witness ==
  /\ ~IsNone(sentiment)
  /\ Len(text) > 0
  /\ scorer = Some(None)
  /\ sentiment = Some(0)

----------------------------------------------------------------------------
(* The end of run_pipeline *)

\* C13: a run that has ended, with the model installed, has written the
\* dataset if and only if it collected at least one record.
C13_OutputIffRecords ==
  (model_installed /\ pc \in {"done", "aborted"}) =>
    (~IsNone(df_final) <=> Len(results) > 0)

\* number of records of results with the given status
CountStatus(st) ==
  Cardinality({k \in 1..Len(results) : results[k].scrape_status = st})

\* C14: the counts of the logged summary are those of the outcomes: total is
\* the number of urls, succeeded the number of ok records, failed the number
\* of scrape_failed records, too short the number of too_short records, and
\* succeeded + failed + too short = total.
C14_SummaryMatchesOutcomes ==
  ~IsNone(summary) =>
    LET c == Get(summary)
    IN  /\ c.total = Len(UrlCells)
        /\ c.success = CountStatus("ok")
        /\ c.failed = CountStatus("scrape_failed")
        /\ c.too_short = CountStatus("too_short")
        /\ c.success + c.failed + c.too_short = c.total

----------------------------------------------------------------------------
(* The strategies of scrape_text *)

\* the number of words of what the primary strategy can extract, computed once
PrimaryWordCounts ==
  {[s |-> p.text, n |-> Words(p.text)] : p \in PrimaryOutcomes}

PrimaryWords(s) == (CHOOSE e \in PrimaryWordCounts : e.s = s).n

\* C15: one call of scrape_text runs the primary strategy first and once;
\* it returns the primary result if and only if the primary strategy did not
\* raise and extracted at least 10 words, and then the fallback is not run;
\* otherwise it runs the fallback once.  No strategy is run twice.
C15_StrategiesInOrder ==
  ~IsNone(scrape_ret) =>
    LET r  == Get(scrape_ret)
        p  == Get(fetch).p
        tr == r.trace
        primary_ok == ~p.raises /\ PrimaryWords(p.text) >= 10
    IN  /\ Len(tr) \in 1..2
        /\ tr[1].strategy = "newspaper"
        /\ \A i, j \in 1..Len(tr) : tr[i].strategy = tr[j].strategy => i = j
        /\ primary_ok <=> Len(tr) = 1
        /\ primary_ok <=> tr[1].outcome = "accepted"
        /\ primary_ok =>
             /\ r.text = Some(p.text)
             /\ r.title = Some(p.title)
             /\ r.pub_date = p.publish_date
        /\ ~primary_ok => (Len(tr) = 2 /\ tr[2].strategy = "bs4")

\* the primary strategy extracted fewer than 10 words and the fallback, run
\* after it, was accepted
C15_Witness ==
  /\ ~IsNone(scrape_ret)
  /\ ~Get(fetch).p.raises
  /\ Get(scrape_ret).trace = <<Step("newspaper", "short"), Step("bs4", "accepted")>>

----------------------------------------------------------------------------
(* The shared model, in one process *)

\* the last call is one that reaches get_nlp()
ModelCall ==
  \/ consulted
  \/ ~IsNone(locations)
  \/ ~IsNone(nlp_ret)
  \/ call_raised # "none"

\* C16: the model is not loaded when the process starts, and spacy.load is
\* called only by a call that needs the model; once a load has succeeded the
\* model is never loaded again and _NLP keeps that instance; every get_nlp()
\* that returns, returns the instance of _NLP, the same as before.
C16_LoadedLazilyOnce ==
  /\ (IsNone(NLP) /\ loads = 0)
  /\ [][ /\ loads' # loads => ModelCall'
         /\ ~IsNone(NLP) => (NLP' = NLP /\ loads' = loads)
         /\ ~IsNone(nlp_ret') =>
              /\ Some(Get(nlp_ret').instance) = NLP'
              /\ Get(nlp_ret').loaded <=> IsNone(NLP) ]_vars

\* a get_nlp() that returns the instance loaded by an earlier call
C16_Witness ==
  /\ ~IsNone(nlp_ret)
  /\ ~Get(nlp_ret).loaded
  /\ Get(nlp_ret).instance = 1
  /\ NLP = Some(1)
  /\ loads = 1

----------------------------------------------------------------------------
(* The shared model, under concurrent callers *)

\* C17: whatever the interleaving of the workers that call get_nlp(), the
\* model is constructed at most once and all the workers that have returned
\* hold the same instance.
C17_ConstructedOnceForAll ==
  model_installed =>
    /\ loads <= 1
    /\ \A v, w \in Workers :
         (~IsNone(wret[v]) /\ ~IsNone(wret[w])) => wret[v] = wret[w]

----------------------------------------------------------------------------
(* detect_diseases_nlp: the dictionary first, the model as a fallback *)

\* the canonical diseases of which a variant occurs in each sample text,
\* computed once
DiseaseHits ==
  {[text |-> t,
    hits |-> {DISEASE_VARIANTS[d].canon :
                d \in {d \in 1..Len(DISEASE_VARIANTS) :
                         \E i \in 1..Len(DISEASE_VARIANTS[d].variants) :
                           Occurs(DISEASE_VARIANTS[d].variants[i], t)}}] :
     t \in SampleTexts}

HitsOf(t) == (CHOOSE e \in DiseaseHits : e.text = t).hits

\* C18: detect_diseases_nlp reaches the model if and only if no variant of
\* the dictionary occurs in the text; when one occurs, the result is exactly
\* the canonical names whose variants occur; the result is sorted and has no
\* duplicate.
C18_ModelOnlyAsFallback ==
  /\ consulted => HitsOf(text) = {}
  /\ ~IsNone(diseases) =>
       LET d == Get(diseases)
       IN  /\ consulted <=> HitsOf(text) = {}
           /\ HitsOf(text) # {} => {d[i] : i \in 1..Len(d)} = HitsOf(text)
           /\ \A i, j \in 1..Len(d) : i < j => StrLess(d[i], d[j])

\* two dictionary hits returned in order, the model never touched
C18_Witness ==
  /\ ~IsNone(diseases)
  /\ Len(Get(diseases)) = 2
  /\ Cardinality(HitsOf(text)) = 2
  /\ ~consulted
  /\ IsNone(NLP)
  /\ loads = 0

----------------------------------------------------------------------------
(* detect_publication_source *)

\* the rules of the heuristic, in the order of the claim, each with its terms
SourceRules ==
  << [label |-> "Social Media",
      terms |-> { <<102,97,99,101,98,111,111,107>>,                        \* "facebook"
                  <<112,111,115,116,101,100,32,111,110,32,115,111,99,105,97,108,32,109,101,100,105,97>>,
                                                                           \* "posted on social media"
                  <<116,119,105,116,116,101,114>>,                         \* "twitter"
                  <<120,46,99,111,109>> }],                                \* "x.com"
     [label |-> "Official Source",
      terms |-> { <<109,105,110,105,115,116,114,121>>,                     \* "ministry"
                  <<109,105,110,105,115,116,232,114,101>>,                 \* "minist\xe8re"
                  <<103,111,118>> }],                                      \* "gov"
     [label |-> "Media",
      terms |-> { <<112,114,101,115,115>>,                                 \* "press"
                  <<106,111,117,114,110,97,108>>,                          \* "journal"
                  <<110,101,119,115,32,97,103,101,110,99,121>> }],         \* "news agency"
     [label |-> "Media (TV/Radio)",
      terms |-> { <<116,118>>,                                             \* "tv"
                  <<114,97,100,105,111>>,                                  \* "radio"
                  <<116,101,108,101,118,105,115,105,111,110>> }] >>        \* "television"

\* the rules of which a term occurs in the lower-cased text t
Matching(t) ==
  {r \in 1..Len(SourceRules) : \E w \in SourceRules[r].terms : In(w, lower(t))}

\* C19: the label is that of the first rule, in the order social media,
\* official, press, broadcast, of which a term occurs in the lower-cased
\* text, and Unknown when there is none; the text with "Facebook" and
\* "Ministry" is Social Media, the example text is Official Source.
C19_FirstRuleWins ==
  ~IsNone(source_nlp) =>
    LET rules == Matching(text)
    IN  /\ rules = {} => Get(source_nlp) = "Unknown"
        /\ rules # {} =>
             \E r \in rules :
               /\ \A q \in rules : r <= q
               /\ Get(source_nlp) = SourceRules[r].label
        /\ text = TextFacebookMinistry => Get(source_nlp) = "Social Media"
        /\ text = TextExample => Get(source_nlp) = "Official Source"

\* a text with terms of two rules gets the label of the first
C19_Witness ==
  /\ text = TextFacebookMinistry
  /\ Matching(text) = {1, 2}
  /\ source_nlp = Some("Social Media")

----------------------------------------------------------------------------
(* The body scrape_text returns *)

\* s has no white space at either end, and none but single spaces inside
IsNormalized(s) ==
  \A i \in 1..Len(s) :
    IsSpace(s[i]) =>
      /\ s[i] = 32
      /\ i > 1
      /\ i < Len(s)
      /\ ~IsSpace(s[i + 1])

\* C20: a body returned by scrape_text, from either strategy, is not empty
\* and is whitespace-normalized: no white space at its ends, and no white
\* space inside other than single spaces.
C20_BodyIsNormalized ==
  (~IsNone(scrape_ret) /\ ~IsNone(Get(scrape_ret).text)) =>
    LET body == Get(Get(scrape_ret).text)
    IN  Len(body) > 0 /\ IsNormalized(body)

----------------------------------------------------------------------------
(* A body that is empty after cleaning *)

\* the fetches c of a url yield a body that is empty once cleaned, and no
\* body of 10 words: the text a strategy extracted has no word at all, and
\* neither strategy extracted 10 words
EmptyAfterCleaning(c) ==
  LET page == clean_text(join(<<10>>,
                [i \in 1..Len(c.f.paragraphs) |-> strip(c.f.paragraphs[i])]))
  IN  /\ c.p.raises \/ Words(c.p.text) < 10
      /\ c.f.raises \/ Words(page) < 10
      /\ \/ ~c.p.raises /\ Len(clean_text(c.p.text)) = 0
         \/ ~c.f.raises /\ Len(page) = 0

\* what scrape_text returns for such urls, computed once
EmptyExtractions == {c.r : c \in {c \in ScrapeCalls : EmptyAfterCleaning(c)}}

\* C21 as claimed: a url whose extraction yields a body that is empty after
\* cleaning gets a record of status too_short with word_count 0.
C21_EmptyBodyIsTooShort ==
  \A k \in 1..Len(results) :
    scraped[k] \in EmptyExtractions =>
      /\ results[k].scrape_status = "too_short"
      /\ results[k].word_count = Some(0)

\* C21 as the code has it: a url whose extraction yields a body that is
\* empty after cleaning gets a null body from scrape_text and a record of
\* status scrape_failed without word_count; no too_short record has
\* word_count 0.
C21_EmptyBodyIsScrapeFailed ==
  \A k \in 1..Len(results) :
    /\ scraped[k] \in EmptyExtractions =>
         /\ IsNone(scraped[k].text)
         /\ results[k].scrape_status = "scrape_failed"
         /\ IsNone(results[k].word_count)
    /\ results[k].scrape_status = "too_short" => results[k].word_count # Some(0)

\* the run has ended with the record of a url whose page had no text
C21_Witness ==
  /\ pc = "done"
  /\ \E k \in 1..Len(results) :
       /\ scraped[k] \in EmptyExtractions
       /\ results[k].scrape_status = "scrape_failed"

----------------------------------------------------------------------------
(* detect_locations: the Arabic country names *)

\* the sets of GPE and LOC entities the model can answer
NerAnswers ==
  {{e.ents[i].text : i \in {i \in 1..Len(e.ents) : e.ents[i].label \in {"GPE", "LOC"}}} :
     e \in EnrichOutcomes}

\* for each sample text: whether it has a character of U+0600-U+06FF, and
\* the English names of the countries whose Arabic name occurs in it,
\* computed once
CountryHits ==
  {[text   |-> t,
    script |-> \E i \in 1..Len(t) : t[i] >= 1536 /\ t[i] <= 1791,
    names  |-> {AR_COUNTRY_TERMS[c].en_name :
                  c \in {c \in 1..Len(AR_COUNTRY_TERMS) :
                           Occurs(AR_COUNTRY_TERMS[c].ar_name, t)}}] :
     t \in SampleTexts}

CountriesOf(t) == CHOOSE e \in CountryHits : e.text = t

\* C22: the list detect_locations returns is, for a text with a character
\* of U+0600-U+06FF, the GPE and LOC entities of the model together with the
\* English name of every country of AR_COUNTRY_TERMS whose Arabic name occurs
\* in the text, and for any other text the entities alone; it is sorted and
\* has no duplicate.
C22_ArabicCountriesAdded ==
  ~IsNone(locations) =>
    LET l == Get(locations)
        found == {l[i] : i \in 1..Len(l)}
        c == CountriesOf(text)
    IN  /\ IF c.script
             THEN \E ner \in NerAnswers : found = ner \cup c.names
             ELSE found \in NerAnswers
        /\ \A i, j \in 1..Len(l) : i < j => StrLess(l[i], l[j])

\* both spellings of the Emirates occur: one entry, after Tunisia
C22_Witness ==
  /\ text = TextEmirates
  /\ locations = Some(<< <<84,117,110,105,115,105,97>>,
                          <<85,110,105,116,101,100,32,65,114,97,98,32,69,109,105,114,97,116,101,115>> >>)

----------------------------------------------------------------------------
(* The records of the urls that are not enriched *)

\* every field that build_record fills is empty or null in rec
NotEnriched(rec) ==
  /\ IsNone(rec.language)
  /\ IsNone(rec.publication_date_detected)
  /\ rec.dates_mentioned = <<>>
  /\ rec.locations = <<>>
  /\ rec.organisations = <<>>
  /\ rec.animals = <<>>
  /\ rec.diseases = <<>>
  /\ IsNone(rec.source_nlp)
  /\ IsNone(rec.sentiment)
  /\ IsNone(rec.summary_50)
  /\ IsNone(rec.summary_100)
  /\ IsNone(rec.summary_150)

\* C23: a step of the loop that stores a scrape_failed or too_short record
\* leaves the model as it was (no load, _NLP unchanged) and stores a stub:
\* no field of build_record is filled; a too_short record has the url, the
\* title, the text as scrape_text returned it and the numbers of words and
\* characters of that text; a scrape_failed record has the url and the
\* title, which may be null, and no text and no counts.
C23_StubsWithoutEnrichment ==
  [][ (/\ Len(results') = Len(results) + 1
       /\ results'[Len(results')].scrape_status \in {"scrape_failed", "too_short"}) =>
        LET rec == results'[Len(results')]
            r   == scraped'[Len(scraped')]
        IN  /\ NLP' = NLP
            /\ loads' = loads
            /\ NotEnriched(rec)
            /\ rec.url = df_urls[row']
            /\ rec.title = r.title
            /\ rec.scrape_status = "too_short" =>
                 /\ rec.text = r.text
                 /\ rec.char_count = Some(Len(Get(r.text)))
                 /\ rec.word_count = Some(BodyWords(Get(r.text)))
            /\ rec.scrape_status = "scrape_failed" =>
                 /\ IsNone(rec.text)
                 /\ IsNone(rec.char_count)
                 /\ IsNone(rec.word_count) ]_vars

\* the run has ended with a too_short record, whose text still ends with
\* the end of line it was extracted with, and a scrape_failed record with
\* a title; the model was never loaded
C23_Witness ==
  /\ pc = "done"
  /\ loads = 0
  /\ IsNone(NLP)
  /\ \E k \in 1..Len(results) :
       /\ results[k].scrape_status = "too_short"
       /\ Get(results[k].text)[Len(Get(results[k].text))] = 10
       /\ NotEnriched(results[k])
  /\ \E k \in 1..Len(results) :
       /\ results[k].scrape_status = "scrape_failed"
       /\ ~IsNone(results[k].title)

----------------------------------------------------------------------------
(* The two floors: 10 words in scrape_text, MIN_WORDS in run_pipeline *)

\* the last strategy scrape_text ran extracted fewer than 10 words
EndedShort(r) == r.trace[Len(r.trace)].outcome = "short"

\* C24: every too_short record has 10 <= word_count < MIN_WORDS; a url of
\* which fewer than 10 words were extracted is scrape_failed, never
\* too_short; and every body that reaches the test against MIN_WORDS has at
\* least 10 words, so that under a threshold of 10 or less the test is never
\* true and no url is too_short.
C24_TooShortBetweenFloors ==
  \A k \in 1..Len(results) :
    /\ results[k].scrape_status = "too_short" =>
         /\ Get(results[k].word_count) >= 10
         /\ Get(results[k].word_count) < MIN_WORDS
    /\ EndedShort(scraped[k]) => results[k].scrape_status = "scrape_failed"
    /\ ~IsNone(scraped[k].text) =>
         \A threshold \in 0..10 : ~(BodyWords(Get(scraped[k].text)) < threshold)

\* the run has ended with a too_short record of 13 or of MIN_WORDS - 1
\* words, followed by the scrape_failed record of a url of which fewer than
\* 10 words were extracted
C24_Witness ==
  /\ pc = "done"
  /\ Len(results) = 2
  /\ results[1].scrape_status = "too_short"
  /\ Get(results[1].word_count) \in {13, MIN_WORDS - 1}
  /\ EndedShort(scraped[2])
  /\ results[2].scrape_status = "scrape_failed"

====
